---- MODULE Spec2Model ----
(***************************************************************************)
(* Model of the duplex bridge (app/ultravox_service.py), of the stage     *)
(* list assembled by create_pipeline (app/pipeline.py) and of the          *)
(* RewardProcessor (app/processors.py).                                    *)
(*                                                                         *)
(* The bridge is modelled as the coroutines asyncio runs for it: the two   *)
(* frame-handler paths of the stage (system frames Start/Cancel, and the   *)
(* ordered data path Audio/End/other), the setup task created by           *)
(* process_frame, and the receive task created by _connect_websocket.      *)
(* Every action is the code between two points where a coroutine really    *)
(* suspends: an await that returns without suspending (a finished task, an *)
(* already closed socket) is part of the same action.                      *)
(* In the file, _initialize_ultravox and process_frame start at column 0   *)
(* and the other functions are nested in them; they are modelled as the    *)
(* methods of UltravoxPipecatService that their self parameter and their   *)
(* calls of each other make them.                                          *)
(* A request in flight on a ClientSession fails when the session is closed *)
(* before it returns; a request started on a closed session raises.        *)
(***************************************************************************)
EXTENDS Integers, Sequences, FiniteSets, TLC

\* ---------------------------------------------------------------- bounds
MaxInit   == 2   \* setup tasks (and the objects each one creates)
MaxAudio  == 2   \* upstream audio chunks delivered to the bridge
MaxMsg    == 2   \* messages read from the connection
MaxCancel == 2   \* CancelSignal frames delivered to the bridge
MaxOther  == 1   \* frames that are neither control nor audio
MaxFed    == 2   \* data frames fed to the stage list of create_pipeline
MaxFeedback == 2 \* frames processed by the RewardProcessor
MaxWrites == 2   \* update_rag_context calls
MaxReads  == 2   \* get_rag_context and build_system_prompt calls
MaxCalls  == 3   \* update_step_reward calls
MaxEvents == 4   \* on_text_message and on_app_message events

Ids      == 1..MaxInit
Handlers == {"sys", "data"}

VARIABLES
    ready,          \* self._ready
    started,        \* self._started
    pipeline_ready, \* self._pipeline_ready
    joinUrl,        \* self._join_url is set
    selfSession,    \* self._session: 0 is None, else the id of the object
    selfWs,         \* self._ws
    selfRecv,       \* self._receive_task
    sess,           \* aiohttp.ClientSession objects: "none", "open", "closed"
    ws,             \* websocket objects: "none", "open", "closed"
    recv,           \* receive tasks: "none","running","cancelling","cancelled","ended",
                    \* "crashed" (ended with an exception)
    initPc,         \* setup tasks: "none","scheduled","post","connect","done","failed"
    initSess,       \* the session object a setup task's request in flight runs on
    hPc,            \* position of each frame handler ("raised": an exception left it)
    hFrame,         \* the frame a handler is processing
    hWait,          \* the receive task a handler is awaiting in _cleanup
    wire,           \* payloads sent over the connection, in send order
    down,           \* frames pushed downstream by the bridge, in push order
    up,             \* frames pushed upstream by the bridge, in push order
    nextChunk,      \* number of the next upstream audio chunk
    nextMsg,        \* number of the next message read from the connection
    startBudget,    \* StartSignal frames still to be delivered
    cancelsLeft,    \* CancelSignal frames still to be delivered
    endLeft,        \* EndSignal frames still to be delivered (one per run)
    otherLeft,      \* other frames still to be delivered
    calls,          \* calls made so far: task.cancel(), ws.close(), session.close()
    cancelsDone,    \* CancelSignal frames whose handler has returned
    sendFailed      \* chunks whose send raised ("Error sending audio" logged)

bridgeVars == << ready, started, pipeline_ready, joinUrl, selfSession, selfWs,
                 selfRecv, sess, ws, recv, initPc, initSess, hPc, hFrame, hWait,
                 wire, down, up, nextChunk, nextMsg, startBudget, cancelsLeft, endLeft,
                 otherLeft, calls, cancelsDone, sendFailed >>

\* The stage list of create_pipeline: the frames queued for each stage, in
\* the order the stage before pushed them, and what has been fed so far.
VARIABLES
    stageIn,        \* frames waiting at each stage
    seenStart,      \* the stage has processed a StartSignal
    fedStart,       \* the pipeline has queued its StartSignal
    fedData,        \* data frames queued so far at the first stage
    fedEnd,         \* the pipeline has queued its EndSignal or CancelSignal
    seenCancel,     \* the stage has processed a CancelSignal
    stageErrors     \* frames on which a stage's process_frame raised

pipeVars == << stageIn, seenStart, fedStart, fedData, fedEnd, seenCancel,
               stageErrors >>

\* The RewardProcessor: what it has logged and pushed, and the reward store.
VARIABLES
    rpFed,          \* frames processed so far (the number of the last one)
    rpIn,           \* frames received by the RewardProcessor, in order
    rpLogFailed,    \* action ids of the frames whose log_event call raised
    rpEvents,       \* conversation_logger.log_event("reward_update", ...) records
    rpWarnings,     \* action ids of the "Missing RL metadata" warnings
    rpPersist,      \* the "RL PERSIST" records logged: key, mask, reward
    rewardStore,    \* the reward store: cumulative reward per (key, mask)
    rpOut           \* frames pushed downstream by the RewardProcessor

rewardVars == << rpFed, rpIn, rpLogFailed, rpEvents, rpWarnings, rpPersist,
                 rewardStore, rpOut >>

\* app/rag.py: the global context, its lock, and the threads calling the
\* module.  A string is the sequence of its pieces: a character, or a run
\* of fixed text that no operation looks into.
VARIABLES
    ragContext,     \* current_rag_context
    ragLock,        \* _rag_context_lock: "free" or the thread holding it
    ragPc,          \* position of each thread: "idle","wait","locked","assigned"
    ragArg,         \* new_context of the update_rag_context call of a writer
    ragOp,          \* what the reader is calling: "get" or "build"
    ragTemplate,    \* template of the reader's build_system_prompt call
    ragSnap,        \* value of the last write returned when the read began
    ragDirty,       \* a write assigned, or had assigned, during the read
    ragWritten,     \* values passed to update_rag_context so far
    ragLastDone,    \* value of the last update_rag_context call that returned
    ragResult,      \* the last read that returned, << >> before
    ragBuilt,       \* the last prompt built and what it was built from
    ragWritesLeft,  \* update_rag_context calls still to be made
    ragReadsLeft    \* reads still to be made

ragVars == << ragContext, ragLock, ragPc, ragArg, ragOp, ragTemplate, ragSnap,
              ragDirty, ragWritten, ragLastDone, ragResult, ragBuilt,
              ragWritesLeft, ragReadsLeft >>

\* app/handlers.py: the global _conversation_state and the turns written by
\* conversation_logger.log_turn.
VARIABLES
    convUser,       \* current_user_text
    convAgent,      \* current_agent_text
    convUserEv,     \* number of the event that set current_user_text
    convTurns,      \* the turns written to the conversation file, in order
    convEvents      \* events handled so far

convVars == << convUser, convAgent, convUserEv, convTurns, convEvents >>

\* brain.py: the rewards:<task_id> hashes of the Redis server and the
\* callers of update_step_reward.
VARIABLES
    brainStore,     \* the hashes: for each task the success and failure counts
    brainPc,        \* position of each caller: "idle" or "incremented"
    brainCall,      \* task_id, success_status, field and new_count of a call
    brainResults,   \* the dicts returned by update_step_reward, in order
    brainDone,      \* calls of update_step_reward that returned, per task
    brainStats,     \* the last dict returned by get_step_stats, << >> before
    brainCallsLeft  \* update_step_reward calls still to be made

brainVars == << brainStore, brainPc, brainCall, brainResults, brainDone,
                brainStats, brainCallsLeft >>

vars == << bridgeVars, pipeVars, rewardVars, ragVars, convVars, brainVars >>

Frame(k, n) == [k |-> k, n |-> n]

\* __init__: every handle is None, every flag False.
BridgeInit(starts) ==
    /\ ready = FALSE
    /\ started = FALSE
    /\ pipeline_ready = FALSE
    /\ joinUrl = FALSE
    /\ selfSession = 0
    /\ selfWs = 0
    /\ selfRecv = 0
    /\ sess = [i \in Ids |-> "none"]
    /\ ws = [i \in Ids |-> "none"]
    /\ recv = [i \in Ids |-> "none"]
    /\ initPc = [i \in Ids |-> "none"]
    /\ initSess = [i \in Ids |-> 0]
    /\ hPc = [h \in Handlers |-> "idle"]
    /\ hFrame = [h \in Handlers |-> "none"]
    /\ hWait = [h \in Handlers |-> 0]
    /\ wire = << >>
    /\ down = << >>
    /\ up = << >>
    /\ nextChunk = 1
    /\ nextMsg = 1
    /\ startBudget = starts
    /\ cancelsLeft = MaxCancel
    /\ endLeft = 1
    /\ otherLeft = MaxOther
    /\ calls = [cancel |-> 0, wsClose |-> 0, sessClose |-> 0]
    /\ cancelsDone = 0
    /\ sendFailed = {}

StartDelivered == \E j \in 1..Len(down) : down[j].k = "Start"

\* The pipeline hands the stage its frames one after the other on each path,
\* the StartSignal first: process_frame has returned for the StartSignal
\* before a later frame is handled.
StartHandled == StartDelivered /\ hFrame["sys"] # "Start"

\* ------------------------------------------------ process_frame: StartFrame
\* StartForward without the push: the StartSignal is consumed.
StartForwardDropped(d) == d

\* await self.push_frame(frame, direction)
StartForward(d) == Append(d, Frame("Start", 0))

\* The id of the setup task asyncio.create_task would create next.
FreshInit == CHOOSE i \in Ids : initPc[i] = "none" /\ \A j \in Ids : j < i => initPc[j] # "none"

ProcessStart ==
    /\ hPc["sys"] = "idle"
    /\ startBudget > 0
    /\ \E i \in Ids : initPc[i] = "none"
    /\ startBudget' = startBudget - 1
    /\ down' = StartForward(down)
    /\ hPc' = [hPc EXCEPT !["sys"] = "start"]
    /\ hFrame' = [hFrame EXCEPT !["sys"] = "Start"]
    /\ UNCHANGED << pipeVars, rewardVars, ragVars, convVars, brainVars, up, sendFailed, ready, started, pipeline_ready, joinUrl, selfSession, selfWs,
                    selfRecv, sess, ws, recv, initPc, initSess, hWait, wire,
                    nextChunk, nextMsg, cancelsLeft, endLeft, otherLeft, calls,
                    cancelsDone >>

\* if not self._started: asyncio.create_task(self._initialize_ultravox())
StartCreateTask ==
    /\ hPc["sys"] = "start"
    /\ initPc' = IF started THEN initPc ELSE [initPc EXCEPT ![FreshInit] = "scheduled"]
    /\ hPc' = [hPc EXCEPT !["sys"] = "idle"]
    /\ hFrame' = [hFrame EXCEPT !["sys"] = "none"]
    /\ UNCHANGED << pipeVars, rewardVars, ragVars, convVars, brainVars, up, sendFailed, ready, started, pipeline_ready, joinUrl, selfSession, selfWs,
                    selfRecv, sess, ws, recv, initSess, hWait, wire, down,
                    nextChunk, nextMsg, startBudget, cancelsLeft, endLeft,
                    otherLeft, calls, cancelsDone >>

\* ------------------------------------------------------ _initialize_ultravox
\* First run of the task: the _started check, the ClientSession, the POST.
InitBegin(i) ==
    /\ initPc[i] = "scheduled"
    /\ IF started
       THEN /\ initPc' = [initPc EXCEPT ![i] = "done"]
            /\ UNCHANGED << selfSession, sess, initSess >>
       ELSE /\ selfSession' = i
            /\ sess' = [sess EXCEPT ![i] = "open"]
            /\ initSess' = [initSess EXCEPT ![i] = i]
            /\ initPc' = [initPc EXCEPT ![i] = "post"]
    /\ UNCHANGED << pipeVars, rewardVars, ragVars, convVars, brainVars, up, sendFailed, ready, started, pipeline_ready, joinUrl, selfWs, selfRecv,
                    ws, recv, hPc, hFrame, hWait, wire, down, nextChunk, nextMsg,
                    startBudget, cancelsLeft, endLeft, otherLeft, calls,
                    cancelsDone >>

\* _create_ultravox_call returns or raises.  outcome is what the service
\* answers: "ok" (a call with a joinUrl), "nourl" (success without joinUrl),
\* "error" (a status other than 200/201).  A request whose session has been
\* closed meanwhile raises, and so does ws_connect called on a closed
\* session.  An exception is logged and re-raised: the task ends, nothing
\* else is touched.
InitCallCreated(i, outcome) ==
    /\ initPc[i] = "post"
    /\ IF sess[initSess[i]] # "open" \/ outcome = "error"
       THEN /\ initPc' = [initPc EXCEPT ![i] = "failed"]
            /\ UNCHANGED << joinUrl, initSess >>
       ELSE /\ joinUrl' = (outcome = "ok")
            /\ initSess' = [initSess EXCEPT ![i] = selfSession]
            /\ initPc' = [initPc EXCEPT ![i] =
                            IF outcome # "ok" THEN "done"
                            ELSE IF sess[selfSession] # "open" THEN "failed"
                            ELSE "connect"]
    /\ UNCHANGED << pipeVars, rewardVars, ragVars, convVars, brainVars, up, sendFailed, ready, started, pipeline_ready, selfSession, selfWs, selfRecv,
                    sess, ws, recv, hPc, hFrame, hWait, wire, down, nextChunk,
                    nextMsg, startBudget, cancelsLeft, endLeft, otherLeft, calls,
                    cancelsDone >>

\* InitConnected with _ready raised before the connection is awaited: the
\* flag stays up when the connection fails.
InitConnectedReadyFirst(i, ok) ==
    /\ initPc[i] = "connect"
    /\ ready' = TRUE
    /\ IF sess[initSess[i]] # "open" \/ ~ok
       THEN /\ initPc' = [initPc EXCEPT ![i] = "failed"]
            /\ UNCHANGED << selfWs, selfRecv, ws, recv, started >>
       ELSE /\ selfWs' = i
            /\ ws' = [ws EXCEPT ![i] = "open"]
            /\ selfRecv' = i
            /\ recv' = [recv EXCEPT ![i] = "running"]
            /\ started' = TRUE
            /\ initPc' = [initPc EXCEPT ![i] = "done"]
    /\ UNCHANGED << pipeVars, rewardVars, ragVars, convVars, brainVars, up, sendFailed, pipeline_ready, joinUrl, selfSession, sess, initSess, hPc,
                    hFrame, hWait, wire, down, nextChunk, nextMsg, startBudget,
                    cancelsLeft, endLeft, otherLeft, calls, cancelsDone >>

\* _connect_websocket returns or raises; then _ready and _started are set.
InitConnected(i, ok) ==
    /\ initPc[i] = "connect"
    /\ IF sess[initSess[i]] # "open" \/ ~ok
       THEN /\ initPc' = [initPc EXCEPT ![i] = "failed"]
            /\ UNCHANGED << selfWs, selfRecv, ws, recv, ready, started >>
       ELSE /\ selfWs' = i
            /\ ws' = [ws EXCEPT ![i] = "open"]
            /\ selfRecv' = i
            /\ recv' = [recv EXCEPT ![i] = "running"]
            /\ ready' = TRUE
            /\ started' = TRUE
            /\ initPc' = [initPc EXCEPT ![i] = "done"]
    /\ UNCHANGED << pipeVars, rewardVars, ragVars, convVars, brainVars, up, sendFailed, pipeline_ready, joinUrl, selfSession, sess, initSess, hPc,
                    hFrame, hWait, wire, down, nextChunk, nextMsg, startBudget,
                    cancelsLeft, endLeft, otherLeft, calls, cancelsDone >>

\* --------------------------------------------------------------- _cleanup
\* The part of the state _cleanup works on, with the position (pc) the
\* handler is left in, the task it waits for, and the handlers that returned.
Bundle ==
    [ready |-> ready, started |-> started, pipeline_ready |-> pipeline_ready,
     recv |-> recv, ws |-> ws, sess |-> sess, calls |-> calls, down |-> down,
     pc |-> "idle", wait |-> 0, done |-> cancelsDone]

\* process_frame: await self.push_frame(frame, direction); return
ForwardControl(b, f) ==
    [b EXCEPT !.down = Append(@, Frame(f, 0)),
              !.pc = "idle",
              !.wait = 0,
              !.done = IF f = "Cancel" THEN @ + 1 ELSE @]

\* if self._session: await self._session.close()
CleanupSession(b, f) ==
    IF selfSession = 0 THEN ForwardControl(b, f)
    ELSE IF b.sess[selfSession] = "open"
         THEN [b EXCEPT !.sess[selfSession] = "closed",
                        !.calls.sessClose = @ + 1,
                        !.pc = "sessclose", !.wait = 0]
         ELSE ForwardControl([b EXCEPT !.calls.sessClose = @ + 1], f)

\* CleanupWs without the close: the socket is left as it is.
CleanupWsSkipped(b, f) == CleanupSession(b, f)

\* if self._ws: await self._ws.close()
CleanupWs(b, f) ==
    IF selfWs = 0 THEN CleanupSession(b, f)
    ELSE IF b.ws[selfWs] = "open"
         THEN [b EXCEPT !.ws[selfWs] = "closed",
                        !.calls.wsClose = @ + 1,
                        !.pc = "wsclose", !.wait = 0]
         ELSE CleanupSession([b EXCEPT !.calls.wsClose = @ + 1], f)

\* await self._receive_task has the result of task w: a CancelledError is
\* caught (except asyncio.CancelledError: pass); another exception the task
\* ended with leaves _cleanup and process_frame.
CleanupAwaited(b, f, w) ==
    IF b.recv[w] = "crashed" THEN [b EXCEPT !.pc = "raised", !.wait = 0]
    ELSE CleanupWs(b, f)

\* if self._receive_task: self._receive_task.cancel(); await self._receive_task
CleanupRecv(b, f) ==
    IF selfRecv = 0 THEN CleanupWs(b, f)
    ELSE LET c == [b EXCEPT !.calls.cancel = @ + 1,
                            !.recv[selfRecv] = IF @ = "running" THEN "cancelling" ELSE @]
         IN  IF c.recv[selfRecv] = "cancelling"
             THEN [c EXCEPT !.pc = "join", !.wait = selfRecv]
             ELSE CleanupAwaited(c, f, selfRecv)

\* self._ready = False; self._started = False; self._pipeline_ready = False
Cleanup(b, f) ==
    CleanupRecv([b EXCEPT !.ready = FALSE, !.started = FALSE,
                          !.pipeline_ready = FALSE], f)

\* The state after handler h ran a piece of _cleanup for frame f.
Apply(b, h, f) ==
    /\ ready' = b.ready
    /\ started' = b.started
    /\ pipeline_ready' = b.pipeline_ready
    /\ recv' = b.recv
    /\ ws' = b.ws
    /\ sess' = b.sess
    /\ calls' = b.calls
    /\ down' = b.down
    /\ cancelsDone' = b.done
    /\ hPc' = [hPc EXCEPT ![h] = b.pc]
    /\ hWait' = [hWait EXCEPT ![h] = b.wait]
    /\ hFrame' = [hFrame EXCEPT ![h] = IF b.pc = "idle" THEN "none" ELSE f]

\* -------------------------------------- process_frame: CancelFrame, EndFrame
ProcessCancel ==
    /\ hPc["sys"] = "idle"
    /\ StartDelivered
    /\ cancelsLeft > 0
    /\ cancelsLeft' = cancelsLeft - 1
    /\ Apply(Cleanup(Bundle, "Cancel"), "sys", "Cancel")
    /\ UNCHANGED << pipeVars, rewardVars, ragVars, convVars, brainVars, up, sendFailed, joinUrl, selfSession, selfWs, selfRecv, initPc, initSess,
                    wire, nextChunk, nextMsg, startBudget, endLeft, otherLeft >>

ProcessEnd ==
    /\ hPc["data"] = "idle"
    /\ StartHandled
    /\ endLeft > 0
    /\ endLeft' = endLeft - 1
    /\ Apply(Cleanup(Bundle, "End"), "data", "End")
    /\ UNCHANGED << pipeVars, rewardVars, ragVars, convVars, brainVars, up, sendFailed, joinUrl, selfSession, selfWs, selfRecv, initPc, initSess,
                    wire, nextChunk, nextMsg, startBudget, cancelsLeft, otherLeft >>

\* await self._receive_task returns: the awaited task has finished.
CleanupJoined(h) ==
    /\ hPc[h] = "join"
    /\ recv[hWait[h]] \notin {"running", "cancelling"}
    /\ Apply(CleanupAwaited(Bundle, hFrame[h], hWait[h]), h, hFrame[h])
    /\ UNCHANGED << pipeVars, rewardVars, ragVars, convVars, brainVars, up, sendFailed, joinUrl, selfSession, selfWs, selfRecv, initPc, initSess,
                    wire, nextChunk, nextMsg, startBudget, cancelsLeft, endLeft,
                    otherLeft >>

\* await self._ws.close() returns: the close handshake is over.
CleanupWsClosed(h) ==
    /\ hPc[h] = "wsclose"
    /\ Apply(CleanupSession(Bundle, hFrame[h]), h, hFrame[h])
    /\ UNCHANGED << pipeVars, rewardVars, ragVars, convVars, brainVars, up, sendFailed, joinUrl, selfSession, selfWs, selfRecv, initPc, initSess,
                    wire, nextChunk, nextMsg, startBudget, cancelsLeft, endLeft,
                    otherLeft >>

\* await self._session.close() returns.
CleanupSessionClosed(h) ==
    /\ hPc[h] = "sessclose"
    /\ Apply(ForwardControl(Bundle, hFrame[h]), h, hFrame[h])
    /\ UNCHANGED << pipeVars, rewardVars, ragVars, convVars, brainVars, up, sendFailed, joinUrl, selfSession, selfWs, selfRecv, initPc, initSess,
                    wire, nextChunk, nextMsg, startBudget, cancelsLeft, endLeft,
                    otherLeft >>

\* ------------------------------------------------ process_frame: audio frames
\* SendAudio through a buffer flushed newest-first.
SendAudioNewestFirst(w, c) == << c >> \o w

\* _send_audio: await self._ws.send_bytes(audio_bytes)
SendAudio(w, c) == Append(w, c)

\* Streaming without the _ready flag: a connection has been assigned.
StreamingWithoutReady == selfWs # 0

\* process_frame takes the audio branch: if self._ready and self._ws.
Streaming == ready /\ selfWs # 0

\* _send_audio makes the send: if self._ws and not self._ws.closed.
SendAttempted == Streaming /\ ws[selfWs] = "open"

\* DropChunk with a retry: the chunk whose send raised is sent again.
RetryChunk(w, c) == Append(w, c)

\* except Exception as e: logger.debug(...): the chunk whose send raised is
\* neither sent again nor kept.
DropChunk(w, c) == w

\* An audio frame reaches the handler.  ok: send_bytes does not raise.  The
\* frame is never pushed downstream.  When _send_audio finds the socket
\* closed it returns without sending and without raising.
ProcessAudio(ok) ==
    /\ hPc["data"] = "idle"
    /\ StartHandled
    /\ nextChunk <= MaxAudio
    /\ nextChunk' = nextChunk + 1
    /\ IF SendAttempted /\ ok
       THEN /\ wire' = SendAudio(wire, nextChunk)
            /\ hPc' = [hPc EXCEPT !["data"] = "sending"]
            /\ hFrame' = [hFrame EXCEPT !["data"] = "Audio"]
            /\ UNCHANGED sendFailed
       ELSE IF SendAttempted
       THEN /\ wire' = DropChunk(wire, nextChunk)
            /\ sendFailed' = sendFailed \cup {nextChunk}
            /\ UNCHANGED << hPc, hFrame >>
       ELSE UNCHANGED << wire, hPc, hFrame, sendFailed >>
    /\ UNCHANGED << pipeVars, rewardVars, ragVars, convVars, brainVars, up, ready, started, pipeline_ready, joinUrl, selfSession, selfWs,
                    selfRecv, sess, ws, recv, initPc, initSess, hWait, down,
                    nextMsg, startBudget, cancelsLeft, endLeft, otherLeft, calls,
                    cancelsDone >>

\* send_bytes returns; process_frame returns.
SendReturned ==
    /\ hPc["data"] = "sending"
    /\ hPc' = [hPc EXCEPT !["data"] = "idle"]
    /\ hFrame' = [hFrame EXCEPT !["data"] = "none"]
    /\ UNCHANGED << pipeVars, rewardVars, ragVars, convVars, brainVars, up, sendFailed, ready, started, pipeline_ready, joinUrl, selfSession, selfWs,
                    selfRecv, sess, ws, recv, initPc, initSess, hWait, wire, down,
                    nextChunk, nextMsg, startBudget, cancelsLeft, endLeft,
                    otherLeft, calls, cancelsDone >>

\* ------------------------------------------------ process_frame: other frames
\* PushFrame with the direction ignored: every frame goes downstream.
PushFrameDownstream(p, f, direction) == [p EXCEPT !.down = Append(@, f)]

\* await self.push_frame(frame, direction)
PushFrame(p, f, direction) == [p EXCEPT ![direction] = Append(@, f)]

\* A frame of another type, travelling in the given direction, reaches the
\* handler: it is pushed on.
ProcessOther(direction) ==
    /\ hPc["data"] = "idle"
    /\ StartHandled
    /\ otherLeft > 0
    /\ otherLeft' = otherLeft - 1
    /\ LET p == PushFrame([down |-> down, up |-> up], Frame("Other", 0), direction)
       IN  down' = p.down /\ up' = p.up
    /\ UNCHANGED << pipeVars, rewardVars, ragVars, convVars, brainVars, sendFailed, ready, started, pipeline_ready, joinUrl, selfSession, selfWs,
                    selfRecv, sess, ws, recv, initPc, initSess, hPc, hFrame, hWait,
                    wire, nextChunk, nextMsg, startBudget, cancelsLeft, endLeft,
                    calls, cancelsDone >>

\* -------------------------------------------------------- _receive_audio_loop
\* PushAudio putting the frame ahead of the frames already pushed.
PushAudioAhead(d, n) == << Frame("Audio", n) >> \o d

\* audio_frame = OutputAudioRawFrame(audio=msg.data, ...);
\* await self.push_frame(audio_frame, FrameDirection.DOWNSTREAM)
PushAudio(d, n) == Append(d, Frame("Audio", n))

\* A BINARY message: an OutputAudioRawFrame is pushed downstream.  ok: the
\* push does not raise (an exception of the push is caught and the loop goes on).
RecvBinary(i, ok) ==
    /\ recv[i] = "running"
    /\ ws[i] = "open"
    /\ nextMsg <= MaxMsg
    /\ nextMsg' = nextMsg + 1
    /\ down' = IF ok THEN PushAudio(down, nextMsg) ELSE down
    /\ UNCHANGED << pipeVars, rewardVars, ragVars, convVars, brainVars, up, sendFailed, ready, started, pipeline_ready, joinUrl, selfSession, selfWs,
                    selfRecv, sess, ws, recv, initPc, initSess, hPc, hFrame, hWait,
                    wire, nextChunk, startBudget, cancelsLeft, endLeft, otherLeft,
                    calls, cancelsDone >>

\* How the loop is left: a break on an ERROR or CLOSED message, or an
\* exception, which the loop's except Exception logs.  LoopExitUncaught is
\* the loop without that handler: the exception ends the task.
LoopExitUncaught(how) == IF how = "exception" THEN "crashed" ELSE "ended"

\* The task returns in each case.
LoopExit(how) == "ended"

\* The TEXT messages the loop tells apart: the three types it knows, an
\* object of another type, an object without a type, JSON that is not an
\* object (a list, a string, a number, null), and text that is not JSON.
TextKinds ==
    {"transcript", "agent_response", "state", "unknown", "notype", "nonobject",
     "notjson"}

\* The frames pushed for TEXT message n: the text of a transcript or of an
\* agent_response and the state are logged, the others fall through; no
\* frame is built in any branch.
TextEmits(kind, n) == << >>

\* The exception that leaves the inner try: json.JSONDecodeError is caught
\* there; data.get on a value that is not a dict raises AttributeError,
\* which it does not catch.
TextRaises(kind) == kind = "nonobject"

RecvText(i, kind) ==
    /\ recv[i] = "running"
    /\ ws[i] = "open"
    /\ nextMsg <= MaxMsg
    /\ nextMsg' = nextMsg + 1
    /\ down' = down \o TextEmits(kind, nextMsg)
    /\ recv' = IF TextRaises(kind) THEN [recv EXCEPT ![i] = LoopExit("exception")]
               ELSE recv
    /\ UNCHANGED << pipeVars, rewardVars, ragVars, convVars, brainVars, up, sendFailed, ready, started, pipeline_ready, joinUrl, selfSession, selfWs,
                    selfRecv, sess, ws, initPc, initSess, hPc, hFrame, hWait,
                    wire, nextChunk, startBudget, cancelsLeft, endLeft,
                    otherLeft, calls, cancelsDone >>

\* An ERROR or CLOSED message (the socket is then closed), or an exception
\* of the read: the loop is left and the task returns.
RecvTerminated(i, how) ==
    /\ recv[i] = "running"
    /\ how = "exception" \/ ws[i] = "open"
    /\ recv' = [recv EXCEPT ![i] = LoopExit(how)]
    /\ ws' = IF how = "exception" THEN ws ELSE [ws EXCEPT ![i] = "closed"]
    /\ UNCHANGED << pipeVars, rewardVars, ragVars, convVars, brainVars, up, sendFailed, ready, started, pipeline_ready, joinUrl, selfSession, selfWs,
                    selfRecv, sess, initPc, initSess, hPc, hFrame, hWait, wire,
                    down, nextChunk, nextMsg, startBudget, cancelsLeft, endLeft,
                    otherLeft, calls, cancelsDone >>

\* except asyncio.CancelledError: the cancelled task returns.
RecvCancelled(i) ==
    /\ recv[i] = "cancelling"
    /\ recv' = [recv EXCEPT ![i] = "cancelled"]
    /\ UNCHANGED << pipeVars, rewardVars, ragVars, convVars, brainVars, up, sendFailed, ready, started, pipeline_ready, joinUrl, selfSession, selfWs,
                    selfRecv, sess, ws, initPc, initSess, hPc, hFrame, hWait, wire,
                    down, nextChunk, nextMsg, startBudget, cancelsLeft, endLeft,
                    otherLeft, calls, cancelsDone >>

\* ------------------------------------------------------ create_pipeline
\* Pipeline([transport.input(), stt_service, reward_processor, llm_service,
\*           tts_service, transport.output()])
Stages == << "input", "stt", "reward", "llm", "tts", "output" >>

StageIds == 1..Len(Stages)

ControlKinds == {"Start", "End", "Cancel"}
DataKinds    == {"Data", "Feedback"}

\* A transport or service stage of the library: it hands every frame on (a
\* data frame as the data frame its successor consumes).
ProviderEmits(f) == << f >>

\* RewardProcessor.process_frame: a StartFrame, EndFrame or CancelFrame goes
\* to FrameProcessor.process_frame, which records it and pushes nothing, and
\* the method returns; every other frame is pushed with push_frame.
RewardEmits(f) == IF f.k \in ControlKinds THEN << >> ELSE << f >>

StageEmits(i, f) == IF Stages[i] = "reward" THEN RewardEmits(f) ELSE ProviderEmits(f)

PipeIdle ==
    /\ stageIn = [i \in StageIds |-> << >>]
    /\ seenStart = [i \in StageIds |-> FALSE]
    /\ fedStart = FALSE
    /\ fedData = 0
    /\ fedEnd = FALSE
    /\ seenCancel = [i \in StageIds |-> FALSE]
    /\ stageErrors = {}

\* The pipeline task queues the StartSignal before anything else.
PipeFeedStart ==
    /\ ~fedStart
    /\ fedStart' = TRUE
    /\ stageIn' = [stageIn EXCEPT ![1] = Append(@, Frame("Start", 0))]
    /\ UNCHANGED << bridgeVars, rewardVars, ragVars, convVars, brainVars, seenStart, fedData, fedEnd,
                    seenCancel, stageErrors >>

PipeFeedData(k) ==
    /\ fedStart /\ ~fedEnd
    /\ fedData < MaxFed
    /\ fedData' = fedData + 1
    /\ stageIn' = [stageIn EXCEPT ![1] = Append(@, Frame(k, fedData + 1))]
    /\ UNCHANGED << bridgeVars, rewardVars, ragVars, convVars, brainVars, seenStart, fedStart, fedEnd,
                    seenCancel, stageErrors >>

PipeFeedEnd(k) ==
    /\ fedStart /\ ~fedEnd
    /\ fedEnd' = TRUE
    /\ stageIn' = [stageIn EXCEPT ![1] = Append(@, Frame(k, 0))]
    /\ UNCHANGED << bridgeVars, rewardVars, ragVars, convVars, brainVars, seenStart, fedStart, fedData,
                    seenCancel, stageErrors >>

\* Stage i processes the frame at the head of its queue and pushes what it
\* emits to the stage after it (the last stage writes to the transport).
StageStep(i) ==
    /\ stageIn[i] # << >>
    /\ LET f == Head(stageIn[i])
       IN  /\ seenStart' = [seenStart EXCEPT ![i] = @ \/ f.k = "Start"]
           /\ seenCancel' = [seenCancel EXCEPT ![i] = @ \/ f.k = "Cancel"]
           /\ stageIn' = [j \in StageIds |->
                            IF j = i THEN Tail(stageIn[i])
                            ELSE IF j = i + 1 THEN stageIn[j] \o StageEmits(i, f)
                            ELSE stageIn[j]]
    /\ UNCHANGED << bridgeVars, rewardVars, ragVars, convVars, brainVars, fedStart, fedData, fedEnd,
                    stageErrors >>

\* process_frame of stage i raises on the frame at the head of its queue:
\* the RewardProcessor's, when log_event raises on an ActionFeedbackFrame
\* (nothing in the method catches it, and push_frame is not reached).  The
\* on_error handler of register_handlers logs the error and the event; it
\* cancels nothing, and run_bot cancels the task only when a participant
\* leaves.
StageRaise(i) ==
    /\ stageIn[i] # << >>
    /\ Stages[i] = "reward"
    /\ Head(stageIn[i]).k = "Feedback"
    /\ stageErrors' = stageErrors \cup {Head(stageIn[i]).n}
    /\ stageIn' = [stageIn EXCEPT ![i] = Tail(@)]
    /\ UNCHANGED << bridgeVars, rewardVars, ragVars, convVars, brainVars, seenStart, fedStart, fedData,
                    fedEnd, seenCancel >>

\* ------------------------------------------------------- RewardProcessor
\* user_delta is counted in tenths of a unit (125 is 12.5), rewards in units
\* (1 is +1.0).
UserDeltaLimit == 50

DeltaValues == {125, 499, 500, 800}

\* The metadata dictionaries fed: two complete ones that differ in the mask,
\* one without each of the three fields, one with a falsy value, and the one
\* test_agent.py sends.
MetadataValues ==
    { [screen_state_hash |-> "s1", user_intent |-> "open", sam_mask_id |-> "m1"],
      [screen_state_hash |-> "s1", user_intent |-> "open", sam_mask_id |-> "m2"],
      [user_intent |-> "open", sam_mask_id |-> "m1"],
      [screen_state_hash |-> "s1", sam_mask_id |-> "m1"],
      [screen_state_hash |-> "s1", user_intent |-> "", sam_mask_id |-> "m1"],
      [screen_state_hash |-> "s1", user_intent |-> "open"],
      [intent |-> "settings_click"] }

\* metadata.get(field): None (written "") when the field is absent.
MetaGet(md, field) == IF field \in DOMAIN md THEN md[field] ELSE ""

\* ActionFeedbackFrame(action_id, success, user_delta, metadata)
FeedbackFrame(id, success, user_delta, md) ==
    [k |-> "Feedback", n |-> id, success |-> success, user_delta |-> user_delta,
     metadata |-> md]

\* Reward with the limit included in the good range.
RewardAtLimit(success, user_delta) ==
    IF success /\ user_delta <= 10 * UserDeltaLimit THEN 1 ELSE -1

\* reward = 1.0 if frame.success and frame.user_delta < 50 else -1.0
Reward(success, user_delta) ==
    IF success /\ user_delta < 10 * UserDeltaLimit THEN 1 ELSE -1

\* if not (screen_hash and intent and mask_id)
MetadataComplete(md) ==
    /\ MetaGet(md, "screen_state_hash") # ""
    /\ MetaGet(md, "user_intent") # ""
    /\ MetaGet(md, "sam_mask_id") # ""

\* rl_key = f"rewards:{screen_hash}:{intent}"
RlKey(screen_hash, intent) == "rewards:" \o screen_hash \o ":" \o intent

\* logger.info(f"RL PERSIST: Key='{rl_key}', Mask='{mask_id}', Reward={reward}")
PersistRecord(reward, md) ==
    [key |-> RlKey(MetaGet(md, "screen_state_hash"), MetaGet(md, "user_intent")),
     mask |-> MetaGet(md, "sam_mask_id"),
     reward |-> reward]

\* What _update_reward_store works on.
RewardLogs == [persist |-> rpPersist, warnings |-> rpWarnings, store |-> rewardStore]

\* _update_reward_store without the check of the metadata.
UpdateRewardStoreUnchecked(l, action_id, reward, md) ==
    [l EXCEPT !.persist = Append(@, PersistRecord(reward, md))]

\* _update_reward_store: a warning and return when a field is missing;
\* otherwise the key is built and the update is logged.  The increment of
\* the store is a comment (redis.hincrbyfloat): the store is not written.
UpdateRewardStore(l, action_id, reward, md) ==
    IF ~MetadataComplete(md)
    THEN [l EXCEPT !.warnings = Append(@, action_id)]
    ELSE [l EXCEPT !.persist = Append(@, PersistRecord(reward, md))]

RewardIdle ==
    /\ rpFed = 0
    /\ rpIn = << >>
    /\ rpLogFailed = {}
    /\ rpEvents = << >>
    /\ rpWarnings = << >>
    /\ rpPersist = << >>
    /\ rewardStore = [p \in {} |-> 0]
    /\ rpOut = << >>

\* RewardProcessor.process_frame on an ActionFeedbackFrame: the reward, the
\* store update, the reward_update event, then the frame is pushed.
\* log_ok: log_event, which opens and writes the events file, does not
\* raise.  Nothing in process_frame catches an exception of log_event: it
\* leaves the method before push_frame.
RewardProcessFeedback(success, user_delta, md, log_ok) ==
    /\ rpFed < MaxFeedback
    /\ rpFed' = rpFed + 1
    /\ LET id     == rpFed + 1
           reward == Reward(success, user_delta)
           l      == UpdateRewardStore(RewardLogs, id, reward, md)
           f      == FeedbackFrame(id, success, user_delta, md)
       IN  /\ rpIn' = Append(rpIn, f)
           /\ rpPersist' = l.persist
           /\ rpWarnings' = l.warnings
           /\ rewardStore' = l.store
           /\ IF log_ok
              THEN /\ rpEvents' = Append(rpEvents, [action_id |-> id, reward |-> reward,
                                                    delta |-> user_delta])
                   /\ rpOut' = rpOut \o RewardEmits(f)
                   /\ UNCHANGED rpLogFailed
              ELSE /\ rpLogFailed' = rpLogFailed \cup {id}
                   /\ UNCHANGED << rpEvents, rpOut >>
    /\ UNCHANGED << bridgeVars, pipeVars, ragVars, convVars, brainVars >>

\* RewardProcessor.process_frame on a frame that is not an ActionFeedbackFrame:
\* a lifecycle frame or another data frame.
RewardProcessPlain(k) ==
    /\ rpFed < MaxFeedback
    /\ rpFed' = rpFed + 1
    /\ rpIn' = Append(rpIn, Frame(k, rpFed + 1))
    /\ rpOut' = rpOut \o RewardEmits(Frame(k, rpFed + 1))
    /\ UNCHANGED << bridgeVars, pipeVars, ragVars, convVars, brainVars, rpLogFailed, rpEvents, rpWarnings,
                    rpPersist, rewardStore >>

\* ------------------------------------------------------------------ rag.py
Writers    == {"w1", "w2"}
Reader     == "r"
RagThreads == Writers \cup {Reader}

Whitespace == {" ", "\n"}

\* The snippets written: empty, whitespace only, plain, and one with
\* whitespace around it and braces in it.
Snippets ==
    { << >>, << " ", "\n" >>, << "k" >>, << " ", "{", "k", "}", " " >> }

\* The replacement field of the template.
Slot == "{rag_context}"

\* SYSTEM_PROMPT_TEMPLATE, and a template that is the field alone.
ConfigTemplate ==
    << "You are a helpful AI assistant ... Current Context:", "\n", Slot, "\n",
       "\n", "Instructions: ... when spoken aloud.", "\n" >>

Templates == { ConfigTemplate, << Slot >> }

\* str.strip(): the whitespace at both ends is removed.
RECURSIVE StripLeft(_)
StripLeft(t) ==
    IF t # << >> /\ Head(t) \in Whitespace THEN StripLeft(Tail(t)) ELSE t

RECURSIVE StripRight(_)
StripRight(t) ==
    IF t # << >> /\ t[Len(t)] \in Whitespace
    THEN StripRight(SubSeq(t, 1, Len(t) - 1)) ELSE t

Strip(t) == StripRight(StripLeft(t))

NoContext == << "No specific context provided." >>

\* episodic_memory, built from the fixed best_move = "Coord(450, 200)".
EpisodicMemory ==
    << "LEARNED STRATEGY: Historically, coordinate ", "Coord(450, 200)",
       " was successful here." >>

\* DomainKnowledge with the test for the empty string only.
DomainKnowledgeEmptyOnly(d) == IF d = << >> THEN NoContext ELSE d

\* if not domain_knowledge or domain_knowledge.strip() == "": placeholder
DomainKnowledge(d) == IF d = << >> \/ Strip(d) = << >> THEN NoContext ELSE d

\* context_block = f"{domain_knowledge}\n\n{episodic_memory}"
ContextBlock(d) == DomainKnowledge(d) \o << "\n", "\n" >> \o EpisodicMemory

\* template.format(rag_context=value): every field is replaced by the value,
\* which is not looked into.
RECURSIVE Format(_, _)
Format(template, value) ==
    IF template = << >> THEN << >>
    ELSE (IF Head(template) = Slot THEN value ELSE << Head(template) >>)
         \o Format(Tail(template), value)

\* build_system_prompt(template), for the context get_rag_context returned
BuildSystemPrompt(template, d) == Format(template, ContextBlock(d))

\* Assign, appending to what is there.
AssignAppended(cur, new) == cur \o new

\* current_rag_context = new_context
Assign(cur, new) == new

\* ReadContext returning the value twice over.
ReadContextTwice(c) == c \o c

\* return current_rag_context
ReadContext(c) == c

RagIdle ==
    /\ ragContext = << >>
    /\ ragLock = "free"
    /\ ragPc = [t \in RagThreads |-> "idle"]
    /\ ragArg = [w \in Writers |-> << >>]
    /\ ragOp = "none"
    /\ ragTemplate = << >>
    /\ ragSnap = << >>
    /\ ragDirty = FALSE
    /\ ragWritten = { << >> }
    /\ ragLastDone = << >>
    /\ ragResult = << >>
    /\ ragBuilt = << >>
    /\ ragWritesLeft = MaxWrites
    /\ ragReadsLeft = MaxReads

\* A thread calls update_rag_context(new_context) and comes to the with.
UpdateCall(w, new) ==
    /\ ragPc[w] = "idle"
    /\ ragWritesLeft > 0
    /\ ragWritesLeft' = ragWritesLeft - 1
    /\ ragArg' = [ragArg EXCEPT ![w] = new]
    /\ ragWritten' = ragWritten \cup {new}
    /\ ragPc' = [ragPc EXCEPT ![w] = "wait"]
    /\ UNCHANGED << bridgeVars, pipeVars, rewardVars, convVars, brainVars, ragContext, ragLock, ragOp,
                    ragTemplate, ragSnap, ragDirty, ragLastDone, ragResult,
                    ragBuilt, ragReadsLeft >>

\* with _rag_context_lock: the lock is taken.
UpdateAcquire(w) ==
    /\ ragPc[w] = "wait"
    /\ ragLock = "free"
    /\ ragLock' = w
    /\ ragPc' = [ragPc EXCEPT ![w] = "locked"]
    /\ UNCHANGED << bridgeVars, pipeVars, rewardVars, convVars, brainVars, ragContext, ragArg, ragOp,
                    ragTemplate, ragSnap, ragDirty, ragWritten, ragLastDone,
                    ragResult, ragBuilt, ragWritesLeft, ragReadsLeft >>

\* old_length = len(current_rag_context); current_rag_context = new_context
UpdateAssign(w) ==
    /\ ragPc[w] = "locked"
    /\ ragContext' = Assign(ragContext, ragArg[w])
    /\ ragDirty' = (ragDirty \/ ragPc[Reader] # "idle")
    /\ ragPc' = [ragPc EXCEPT ![w] = "assigned"]
    /\ UNCHANGED << bridgeVars, pipeVars, rewardVars, convVars, brainVars, ragLock, ragArg, ragOp,
                    ragTemplate, ragSnap, ragWritten, ragLastDone, ragResult,
                    ragBuilt, ragWritesLeft, ragReadsLeft >>

\* logger.info(...); the with block is left and the call returns.
UpdateReturn(w) ==
    /\ ragPc[w] = "assigned"
    /\ ragLock' = "free"
    /\ ragLastDone' = ragArg[w]
    /\ ragPc' = [ragPc EXCEPT ![w] = "idle"]
    /\ UNCHANGED << bridgeVars, pipeVars, rewardVars, convVars, brainVars, ragContext, ragArg, ragOp,
                    ragTemplate, ragSnap, ragDirty, ragWritten, ragResult,
                    ragBuilt, ragWritesLeft, ragReadsLeft >>

\* The reader calls get_rag_context(), directly (op "get") or as the first
\* statement of build_system_prompt(template) (op "build").
GetCall(op, template) ==
    /\ ragPc[Reader] = "idle"
    /\ ragReadsLeft > 0
    /\ ragReadsLeft' = ragReadsLeft - 1
    /\ ragOp' = op
    /\ ragTemplate' = IF op = "build" THEN template ELSE << >>
    /\ ragSnap' = ragLastDone
    /\ ragDirty' = \E w \in Writers : ragPc[w] = "assigned"
    /\ ragPc' = [ragPc EXCEPT ![Reader] = "wait"]
    /\ UNCHANGED << bridgeVars, pipeVars, rewardVars, convVars, brainVars, ragContext, ragLock, ragArg,
                    ragWritten, ragLastDone, ragResult, ragBuilt, ragWritesLeft >>

GetAcquire ==
    /\ ragPc[Reader] = "wait"
    /\ ragLock = "free"
    /\ ragLock' = Reader
    /\ ragPc' = [ragPc EXCEPT ![Reader] = "locked"]
    /\ UNCHANGED << bridgeVars, pipeVars, rewardVars, convVars, brainVars, ragContext, ragArg, ragOp,
                    ragTemplate, ragSnap, ragDirty, ragWritten, ragLastDone,
                    ragResult, ragBuilt, ragWritesLeft, ragReadsLeft >>

\* return current_rag_context: the lock is released; build_system_prompt
\* goes on to build the prompt from the value, touching no global.
GetReturn ==
    /\ ragPc[Reader] = "locked"
    /\ ragLock' = "free"
    /\ ragPc' = [ragPc EXCEPT ![Reader] = "idle"]
    /\ LET value == ReadContext(ragContext)
       IN  /\ ragResult' = << [op |-> ragOp, value |-> value, snap |-> ragSnap,
                               dirty |-> ragDirty] >>
           /\ ragBuilt' = IF ragOp = "build"
                          THEN << [template |-> ragTemplate, snippet |-> value,
                                   prompt |-> BuildSystemPrompt(ragTemplate, value)] >>
                          ELSE ragBuilt
    /\ UNCHANGED << bridgeVars, pipeVars, rewardVars, convVars, brainVars, ragContext, ragArg, ragOp,
                    ragTemplate, ragSnap, ragDirty, ragWritten, ragLastDone,
                    ragWritesLeft, ragReadsLeft >>

\* ------------------------------------------------------- ConversationState
\* The texts the events carry: empty, whitespace, and a word.
Texts == {"", " ", "hi"}

\* The messages of on_app_message: a str, or an object that is not one.
AppMessages ==
    {[isStr |-> TRUE, text |-> t] : t \in Texts} \cup {[isStr |-> FALSE, text |-> "hi"]}

\* What log_turn works on.
Conversation ==
    [user |-> convUser, agent |-> convAgent, ev |-> convUserEv, turns |-> convTurns]

\* LogTurn without the two assignments that clear the texts.
LogTurnNoClear(c, ok) ==
    IF c.user # "" /\ c.agent # "" /\ ok
    THEN [c EXCEPT !.turns = Append(@, [user |-> c.user, agent |-> c.agent, ev |-> c.ev])]
    ELSE c

\* ConversationState.log_turn.  ok: conversation_logger.log_turn, which opens
\* the conversation file and writes the entry, does not raise; when it
\* raises nothing is written and the texts are not cleared.
LogTurn(c, ok) ==
    IF c.user # "" /\ c.agent # "" /\ ok
    THEN [c EXCEPT !.turns = Append(@, [user |-> c.user, agent |-> c.agent, ev |-> c.ev]),
                   !.user = "",
                   !.agent = ""]
    ELSE c

ConvIdle ==
    /\ convUser = ""
    /\ convAgent = ""
    /\ convUserEv = 0
    /\ convTurns = << >>
    /\ convEvents = 0

\* on_text_message: _conversation_state.set_user_text(text)
OnTextMessage(text) ==
    /\ convEvents < MaxEvents
    /\ convEvents' = convEvents + 1
    /\ convUser' = text
    /\ convUserEv' = convEvents + 1
    /\ UNCHANGED << bridgeVars, pipeVars, rewardVars, ragVars, brainVars, convAgent, convTurns >>

\* on_app_message: for a str, set_agent_text(message) and log_turn().
OnAppMessage(message, ok) ==
    /\ convEvents < MaxEvents
    /\ convEvents' = convEvents + 1
    /\ LET c == IF message.isStr
                THEN LogTurn([Conversation EXCEPT !.agent = message.text], ok)
                ELSE Conversation
       IN  /\ convUser' = c.user
           /\ convAgent' = c.agent
           /\ convTurns' = c.turns
    /\ UNCHANGED << bridgeVars, pipeVars, rewardVars, ragVars, brainVars, convUserEv >>

\* ----------------------------------------------------------------- brain.py
Callers    == {"c1", "c2"}
Tasks      == {"t1", "t2"}
HashFields == {"success", "failure"}

\* field = "success" if success_status else "failure"
Field(success_status) == IF success_status THEN "success" ELSE "failure"

\* HIncrBy as a read and a write of the caller: the count is set from what
\* the caller saw when no one else had written.
HSetFirst(store, task, field) == [store EXCEPT ![task][field] = 1]

\* r.hincrby(key, field, 1): the server adds 1 to the field of the hash in
\* one command (a missing hash or field counts as 0).
HIncrBy(store, task, field) == [store EXCEPT ![task][field] = @ + 1]

\* r.hgetall(key), read with int(stats.get(field, 0))
HGetAll(store, task) == store[task]

BrainIdle ==
    /\ brainStore = [t \in Tasks |-> [f \in HashFields |-> 0]]
    /\ brainPc = [c \in Callers |-> "idle"]
    /\ brainCall = [c \in Callers |-> << >>]
    /\ brainResults = << >>
    /\ brainDone = [t \in Tasks |-> 0]
    /\ brainStats = << >>
    /\ brainCallsLeft = MaxCalls

\* update_step_reward up to new_count = r.hincrby(key, field, 1)
StepIncrement(c, task_id, success_status) ==
    /\ brainPc[c] = "idle"
    /\ brainCallsLeft > 0
    /\ brainCallsLeft' = brainCallsLeft - 1
    /\ LET field == Field(success_status)
           store == HIncrBy(brainStore, task_id, field)
       IN  /\ brainStore' = store
           /\ brainCall' = [brainCall EXCEPT ![c] =
                                [task_id |-> task_id, success_status |-> success_status,
                                 field |-> field, new_count |-> store[task_id][field]]]
    /\ brainPc' = [brainPc EXCEPT ![c] = "incremented"]
    /\ UNCHANGED << bridgeVars, pipeVars, rewardVars, ragVars, convVars,
                    brainResults, brainDone, brainStats >>

\* stats = r.hgetall(key); the result is built and returned.
StepReturn(c) ==
    /\ brainPc[c] = "incremented"
    /\ LET call  == brainCall[c]
           stats == HGetAll(brainStore, call.task_id)
       IN  /\ brainResults' = Append(brainResults,
                                     [task_id |-> call.task_id,
                                      updated_field |-> call.field,
                                      new_count |-> call.new_count,
                                      success_count |-> stats["success"],
                                      failure_count |-> stats["failure"]])
           /\ brainDone' = [brainDone EXCEPT ![call.task_id] = @ + 1]
    /\ brainPc' = [brainPc EXCEPT ![c] = "idle"]
    /\ UNCHANGED << bridgeVars, pipeVars, rewardVars, ragVars, convVars,
                    brainStore, brainCall, brainStats, brainCallsLeft >>

\* get_step_stats(task_id)
GetStepStats(task_id) ==
    /\ LET stats == HGetAll(brainStore, task_id)
       IN  brainStats' = << [task_id |-> task_id,
                             success |-> stats["success"],
                             failure |-> stats["failure"],
                             total |-> stats["success"] + stats["failure"]] >>
    /\ UNCHANGED << bridgeVars, pipeVars, rewardVars, ragVars, convVars,
                    brainStore, brainPc, brainCall, brainResults, brainDone,
                    brainCallsLeft >>

\* ------------------------------------------------------------ specification
\* One pipeline run: the pipeline delivers one StartSignal to the bridge, and
\* the frames of transport.input(), which travel downstream.  The stage list
\* of create_pipeline is not running.
Init == BridgeInit(1) /\ PipeIdle /\ RewardIdle /\ RagIdle /\ ConvIdle /\ BrainIdle

Next ==
    \/ ProcessStart
    \/ StartCreateTask
    \/ \E i \in Ids : InitBegin(i)
    \/ \E i \in Ids, o \in {"ok", "nourl", "error"} : InitCallCreated(i, o)
    \/ \E i \in Ids, ok \in BOOLEAN : InitConnected(i, ok)
    \/ ProcessCancel
    \/ ProcessEnd
    \/ \E h \in Handlers : CleanupJoined(h)
    \/ \E h \in Handlers : CleanupWsClosed(h)
    \/ \E h \in Handlers : CleanupSessionClosed(h)
    \/ \E ok \in BOOLEAN : ProcessAudio(ok)
    \/ SendReturned
    \/ ProcessOther("down")
    \/ \E i \in Ids, k \in TextKinds : RecvText(i, k)
    \/ \E i \in Ids, ok \in BOOLEAN : RecvBinary(i, ok)
    \/ \E i \in Ids, how \in {"closed", "error", "exception"} : RecvTerminated(i, how)
    \/ \E i \in Ids : RecvCancelled(i)

Spec == Init /\ [][Next]_vars

\* The bridge handed a second StartSignal in the same run: process_frame
\* takes a StartFrame whenever one arrives.
RestartInit == BridgeInit(2) /\ PipeIdle /\ RewardIdle /\ RagIdle /\ ConvIdle /\ BrainIdle

\* The setup and teardown steps of the bridge and the frames it only hands
\* on; no audio and no message traffic.
RestartNext ==
    \/ ProcessStart
    \/ StartCreateTask
    \/ \E i \in Ids : InitBegin(i)
    \/ \E i \in Ids, o \in {"ok", "nourl", "error"} : InitCallCreated(i, o)
    \/ \E i \in Ids, ok \in BOOLEAN : InitConnected(i, ok)
    \/ ProcessCancel
    \/ ProcessEnd
    \/ \E h \in Handlers : CleanupJoined(h)
    \/ \E h \in Handlers : CleanupWsClosed(h)
    \/ \E h \in Handlers : CleanupSessionClosed(h)
    \/ \E d \in {"down", "up"} : ProcessOther(d)
    \/ \E i \in Ids, how \in {"closed", "error", "exception"} : RecvTerminated(i, how)
    \/ \E i \in Ids : RecvCancelled(i)

RestartSpec == RestartInit /\ [][RestartNext]_vars

\* The stage list of create_pipeline, fed by the pipeline task; the bridge is
\* not part of this pipeline.
PipeInit == BridgeInit(0) /\ PipeIdle /\ RewardIdle /\ RagIdle /\ ConvIdle /\ BrainIdle

PipeNext ==
    \/ PipeFeedStart
    \/ \E k \in DataKinds : PipeFeedData(k)
    \/ \E k \in {"End", "Cancel"} : PipeFeedEnd(k)
    \/ \E i \in StageIds : StageStep(i)
    \/ \E i \in StageIds : StageRaise(i)

PipeSpec == PipeInit /\ [][PipeNext]_vars

\* The RewardProcessor fed with ActionFeedbackFrames; the bridge and the
\* other stages are not running.
RewardInit == BridgeInit(0) /\ PipeIdle /\ RewardIdle /\ RagIdle /\ ConvIdle /\ BrainIdle

RewardNext ==
    \/ \E success \in BOOLEAN, user_delta \in DeltaValues, md \in MetadataValues,
          log_ok \in BOOLEAN :
            RewardProcessFeedback(success, user_delta, md, log_ok)
    \/ \E k \in ControlKinds \cup {"Data"} : RewardProcessPlain(k)

RewardSpec == RewardInit /\ [][RewardNext]_vars

\* The threads calling app/rag.py; nothing else is running.
RagInit == BridgeInit(0) /\ PipeIdle /\ RewardIdle /\ RagIdle /\ ConvIdle /\ BrainIdle

RagNext ==
    \/ \E w \in Writers, new \in Snippets : UpdateCall(w, new)
    \/ \E w \in Writers : UpdateAcquire(w)
    \/ \E w \in Writers : UpdateAssign(w)
    \/ \E w \in Writers : UpdateReturn(w)
    \/ \E op \in {"get", "build"}, template \in Templates : GetCall(op, template)
    \/ GetAcquire
    \/ GetReturn

RagSpec == RagInit /\ [][RagNext]_vars

\* The events register_handlers reacts to with the conversation state.
ConvInit == BridgeInit(0) /\ PipeIdle /\ RewardIdle /\ RagIdle /\ ConvIdle /\ BrainIdle

ConvNext ==
    \/ \E text \in Texts : OnTextMessage(text)
    \/ \E message \in AppMessages, ok \in BOOLEAN : OnAppMessage(message, ok)

ConvSpec == ConvInit /\ [][ConvNext]_vars

\* The callers of update_step_reward and get_step_stats, each call a Redis
\* command at a time.
BrainInit ==
    BridgeInit(0) /\ PipeIdle /\ RewardIdle /\ RagIdle /\ ConvIdle /\ BrainIdle

BrainNext ==
    \/ \E c \in Callers, t \in Tasks, st \in BOOLEAN : StepIncrement(c, t, st)
    \/ \E c \in Callers : StepReturn(c)
    \/ \E t \in Tasks : GetStepStats(t)

BrainSpec == BrainInit /\ [][BrainNext]_vars

\* asyncio runs every coroutine that can run, and the setup requests and a
\* started session close return.  Frames and wire messages arrive when they
\* arrive.  Nothing bounds the wait for a cancelled receive task to finish
\* or for the close handshake of the connection to complete.
CodeFairness ==
    /\ WF_vars(StartCreateTask)
    /\ WF_vars(SendReturned)
    /\ \A i \in Ids : WF_vars(InitBegin(i))
    /\ \A i \in Ids : WF_vars(\E o \in {"ok", "nourl", "error"} : InitCallCreated(i, o))
    /\ \A i \in Ids : WF_vars(\E ok \in BOOLEAN : InitConnected(i, ok))
    /\ \A h \in Handlers : WF_vars(CleanupJoined(h))
    /\ \A h \in Handlers : WF_vars(CleanupSessionClosed(h))

HangSpec == Spec /\ CodeFairness

\* ------------------------------------------------------------------ claims
NoConnectionOpen == \A i \in Ids : ws[i] # "open"
NoReceiveRunning == \A i \in Ids : recv[i] \notin {"running", "cancelling"}
NoSessionOpen    == \A i \in Ids : sess[i] # "open"
CancelReceived   == cancelsLeft < MaxCancel

\* Every coroutine of the bridge has run as far as it can without a new
\* frame or message: no handler is inside process_frame, no setup task is
\* pending or in flight, no cancelled task has still to finish.
Quiescent ==
    /\ \A h \in Handlers : hPc[h] = "idle"
    /\ \A i \in Ids : initPc[i] \notin {"scheduled", "post", "connect"}
    /\ \A i \in Ids : recv[i] # "cancelling"

\* C1: the payloads sent over the connection are in the order the audio
\* frames were received (chunks are numbered in receipt order): no two
\* chunks are sent in swapped order.
SendOrderIsReceiptOrder ==
    \A i, j \in 1..Len(wire) : i < j => wire[i] < wire[j]

SendOrderWitness == Len(wire) >= 2 /\ ready

\* C2: a stage that has a data frame to process has processed the
\* StartSignal before.
StartBeforeData ==
    \A i \in StageIds :
        (stageIn[i] # << >> /\ Head(stageIn[i]).k \in DataKinds) => seenStart[i]

\* C3: after a CancelSignal has been delivered, the bridge comes to rest in
\* Closed: not ready, no connection open, no receive task running.
BridgeClosed == ~ready /\ NoConnectionOpen /\ NoReceiveRunning

CancelEndsInClosed == (CancelReceived /\ Quiescent) => BridgeClosed

\* C4: a CancelSignal handled after a first CancelSignal handler has returned
\* changes nothing of the bridge and makes no further cancel() or close() call.
BridgeState ==
    << ready, started, pipeline_ready, selfSession, selfWs, selfRecv, sess, ws,
       recv, calls >>

LaterCancelStep ==
    /\ cancelsDone >= 1
    /\ \/ cancelsLeft' # cancelsLeft
       \/ hFrame["sys"] = "Cancel" /\ hPc'["sys"] # hPc["sys"]

SecondCancelHasNoEffect == [][LaterCancelStep => UNCHANGED BridgeState]_vars

\* C5: once a CancelSignal has been processed, an audio frame delivered to
\* the bridge causes no send.
AudioAfterCancelNotSent ==
    [][(cancelsDone >= 1 /\ nextChunk' # nextChunk) => wire' = wire]_vars

\* C6: no AudioChunk is pushed downstream after a forwarded CancelSignal.
NoAudioAfterForwardedCancel ==
    \A i, j \in 1..Len(down) :
        (i < j /\ down[i].k = "Cancel") => down[j].k # "Audio"

\* C7: when the bridge forwards a CancelSignal or EndSignal, the receive
\* task has finished, the connection is closed and the session is released.
ControlForwardStep ==
    /\ Len(down') = Len(down) + 1
    /\ down'[Len(down')].k \in {"Cancel", "End"}

TeardownBeforeForward ==
    [][ControlForwardStep =>
          (NoConnectionOpen /\ NoReceiveRunning /\ NoSessionOpen)']_vars

TeardownBeforeForwardWitness ==
    /\ \E j \in 1..Len(down) : down[j].k \in {"Cancel", "End"}
    /\ \E i \in Ids : ws[i] = "closed" /\ recv[i] = "cancelled" /\ sess[i] = "closed"
    /\ calls.cancel >= 1 /\ calls.wsClose >= 1 /\ calls.sessClose >= 1

\* C8: once the receive loop has ended on a close, an error or an exception,
\* the bridge comes to rest torn down: not ready, connection and session
\* closed.
ReceiveLoopEnded == \E i \in Ids : recv[i] = "ended"

ReceiveEndTearsDown ==
    (ReceiveLoopEnded /\ Quiescent) => (~ready /\ NoConnectionOpen /\ NoSessionOpen)

\* C9: a handler that has begun the teardown for a CancelSignal or EndSignal
\* comes to forward the frame and return, even if the receive task does not
\* finish or the close of the connection does not complete.
TeardownAlwaysForwards ==
    \A h \in Handlers :
        (hPc[h] \in {"join", "wsclose", "sessclose"}) ~> (hPc[h] = "idle")

\* C10: the StartSignal has been forwarded downstream whenever the setup
\* exists in any form (task created, session created, failed or not).
StartForwardedBeforeSetup ==
    (\E i \in Ids : initPc[i] # "none" \/ sess[i] # "none") => StartDelivered

StartForwardedWitness ==
    /\ StartDelivered
    /\ \E i \in Ids : initPc[i] = "failed"
    /\ hPc["sys"] = "idle"

\* C11: once a teardown has completed (its control frame has been forwarded:
\* the bridge is Closed), no step of the bridge sets it ready again, starts a
\* setup request, creates a session or opens a connection.
TeardownDone == \E j \in 1..Len(down) : down[j].k \in {"Cancel", "End"}

ClosedStaysClosed ==
    [][TeardownDone =>
          /\ ready' => ready
          /\ \A i \in Ids :
                /\ sess'[i] = "open" => sess[i] = "open"
                /\ ws'[i] = "open" => ws[i] = "open"
                /\ initPc'[i] \in {"post", "connect"} => initPc[i] \in {"post", "connect"}]_vars

\* C12: once the setup has failed (the session request or the connection
\* raised) and the bridge is at rest, the bridge is torn down: not ready, no
\* connection open, no receive task running, the session released.
SetupFailed == \E i \in Ids : initPc[i] = "failed"

SetupFailureTearsDown ==
    (SetupFailed /\ Quiescent) => (BridgeClosed /\ NoSessionOpen)

\* C13: an audio chunk delivered while the bridge is Streaming is sent once,
\* as it is, or its send failed: it is not dropped without a send failure.
ChunkSentOrFailed ==
    [][(nextChunk' # nextChunk /\ Streaming) =>
          \/ wire' = Append(wire, nextChunk) /\ sendFailed' = sendFailed
          \/ wire' = wire /\ sendFailed' = sendFailed \cup {nextChunk}]_vars

\* C14: a transcript message with a text makes the bridge push one
\* TranscriptText frame carrying it, and an agent_response message one
\* GeneratedText frame.
TextFrameEmitted ==
    [][/\ (\E i \in Ids : RecvText(i, "transcript")) =>
             down' = Append(down, Frame("Transcript", nextMsg))
       /\ (\E i \in Ids : RecvText(i, "agent_response")) =>
             down' = Append(down, Frame("Generated", nextMsg))]_vars

\* C15: reading a TEXT message of any kind leaves the receive loop running.
TextNeverEndsLoop ==
    [][(\E i \in Ids, k \in TextKinds : RecvText(i, k)) => recv' = recv]_vars

\* C16: a send that raises changes nothing of the bridge: its handler is not
\* left by the exception, the chunk is not sent later and not kept, and an
\* audio chunk delivered afterwards with the connection open is sent (or
\* fails in its turn).
SendFailureContained ==
    [][/\ sendFailed' # sendFailed =>
             /\ UNCHANGED << BridgeState, wire, down, hPc, hFrame >>
             /\ hPc["data"] = "idle"
       /\ \A c \in sendFailed' : \A j \in 1..Len(wire') : wire'[j] # c
       /\ (sendFailed # {} /\ nextChunk' # nextChunk /\ SendAttempted) =>
             \/ wire' = Append(wire, nextChunk)
             \/ nextChunk \in sendFailed']_vars

SendFailureWitness ==
    /\ \E c \in sendFailed : \E j \in 1..Len(wire) : wire[j] > c
    /\ hPc["data"] = "idle"
    /\ ready

\* C17: no receive task ends with an exception and no frame handler is left
\* by one raised from the join of the receive task: the cancellation made by
\* the teardown, and every exception of the loop, stay inside the bridge.
ReceiveErrorsAbsorbed ==
    /\ \A i \in Ids : recv[i] # "crashed"
    /\ \A h \in Handlers : hPc[h] # "raised"

ReceiveCancelWitness ==
    /\ \E i \in Ids : recv[i] = "cancelled"
    /\ calls.cancel >= 1
    /\ \E j \in 1..Len(down) : down[j].k \in {"Cancel", "End"}
    /\ \A h \in Handlers : hPc[h] = "idle"

\* C18: the reward logged for a feedback frame is +1 exactly when the frame
\* reports success with a user_delta below 50.0 (500 tenths), and -1 in every
\* other case, user_delta = 50.0 included.
FeedbackOf(id) == CHOOSE f \in {rpIn[j] : j \in 1..Len(rpIn)} : f.n = id

RewardFollowsRule ==
    \A j \in 1..Len(rpEvents) :
        LET e == rpEvents[j]
            f == FeedbackOf(e.action_id)
        IN  /\ e.reward \in {1, -1}
            /\ e.reward = 1 <=> (f.success /\ f.user_delta < 500)

RewardWitness ==
    /\ \E j \in 1..Len(rpEvents) : rpEvents[j].delta = 125 /\ rpEvents[j].reward = 1
    /\ \E j \in 1..Len(rpEvents) :
          /\ rpEvents[j].delta = 500 /\ rpEvents[j].reward = -1
          /\ FeedbackOf(rpEvents[j].action_id).success

\* C19: for the composite key (key, mask) of every feedback frame processed
\* with complete metadata, the value the reward store holds equals the sum
\* of the rewards computed for the frames carrying that key.
CompositeKey(md) ==
    << RlKey(MetaGet(md, "screen_state_hash"), MetaGet(md, "user_intent")),
       MetaGet(md, "sam_mask_id") >>

StoreValue(p) == IF p \in DOMAIN rewardStore THEN rewardStore[p] ELSE 0

IsFeedback(f) == f.k = "Feedback"

CompleteFeedback(f) == IsFeedback(f) /\ MetadataComplete(f.metadata)

\* The sum of the rewards computed for the frames among the first j received
\* that carry the composite key p.
RECURSIVE SumRewards(_, _)
SumRewards(p, j) ==
    IF j = 0 THEN 0
    ELSE SumRewards(p, j - 1) +
         (IF CompleteFeedback(rpIn[j]) /\ CompositeKey(rpIn[j].metadata) = p
          THEN Reward(rpIn[j].success, rpIn[j].user_delta) ELSE 0)

StoreIsSumOfRewards ==
    \A j \in 1..Len(rpIn) :
        CompleteFeedback(rpIn[j]) =>
            StoreValue(CompositeKey(rpIn[j].metadata)) =
                SumRewards(CompositeKey(rpIn[j].metadata), Len(rpIn))

\* C20: a feedback frame whose metadata lacks one of the three fields leaves
\* the store and the persisted records as they are and gets one warning; no
\* record and no store entry has a key with an empty part.
PartialKeys ==
    { CompositeKey(md) : md \in { m \in MetadataValues : ~MetadataComplete(m) } }

EventsOf(id) == { j \in 1..Len(rpEvents) : rpEvents[j].action_id = id }

AuditTrailOnlyForUpdates ==
    \A j \in 1..Len(rpIn) :
        IsFeedback(rpIn[j]) =>
            /\ ~MetadataComplete(rpIn[j].metadata) => EventsOf(rpIn[j].n) = {}
            /\ (MetadataComplete(rpIn[j].metadata) /\ rpIn[j].n \notin rpLogFailed) =>
                   Cardinality(EventsOf(rpIn[j].n)) = 1

\* C22: the frames that are not feedback frames leave the RewardProcessor as
\* they came in: each one once, unchanged, in the order received.
IsPlain(f) == ~IsFeedback(f)

PlainFramesPassThrough == SelectSeq(rpOut, IsPlain) = SelectSeq(rpIn, IsPlain)

\* C23: the feedback frames leave the RewardProcessor as they came in, each
\* one once, whether their update was made or skipped.
FeedbackFramesPassThrough ==
    SelectSeq(rpOut, IsFeedback) = SelectSeq(rpIn, IsFeedback)

\* C24: a feedback frame whose log_event call raised has been pushed
\* downstream all the same.
LogFailureStillPushes ==
    \A id \in rpLogFailed : \E j \in 1..Len(rpOut) : rpOut[j].n = id

\* t holds p as a run of consecutive pieces.
Contains(t, p) ==
    \E i \in 0..(Len(t) - Len(p)) : SubSeq(t, i + 1, i + Len(p)) = p

Blank(d) == \A i \in 1..Len(d) : d[i] \in Whitespace

\* C25: the prompt built from an empty or whitespace-only snippet holds the
\* placeholder "No specific context provided." and not the snippet's place
\* left blank; the prompt built from any other snippet holds that snippet
\* verbatim, whitespace and braces included, and no placeholder.
PromptEmbedsSnippet ==
    \A j \in 1..Len(ragBuilt) :
        IF Blank(ragBuilt[j].snippet)
        THEN Contains(ragBuilt[j].prompt, NoContext \o << "\n", "\n" >>)
        ELSE /\ Contains(ragBuilt[j].prompt, ragBuilt[j].snippet \o << "\n", "\n" >>)
             /\ ~Contains(ragBuilt[j].prompt, NoContext)

PromptEmbedsWitness ==
    /\ ragBuilt # << >>
    /\ ragBuilt[1].snippet = << " ", "\n" >>
    /\ ragBuilt[1].template = ConfigTemplate

\* C26: a prompt built while the reward store is empty holds no
\* historically-learned hint.
HintOnlyFromStore ==
    \A j \in 1..Len(ragBuilt) :
        DOMAIN rewardStore = {} => ~Contains(ragBuilt[j].prompt, EpisodicMemory)

\* C27: every read returns a value that was passed whole to a write already
\* called, or the initial empty string; and a read during which no write
\* assigned or was between its assignment and its return yields the value of
\* the last write that had returned when the read began.
ReadsAreWholeAndLatest ==
    \A j \in 1..Len(ragResult) :
        /\ ragResult[j].value \in ragWritten
        /\ ~ragResult[j].dirty => ragResult[j].value = ragResult[j].snap

ReadAfterWriteWitness ==
    /\ ragResult # << >>
    /\ ~ragResult[1].dirty
    /\ ragResult[1].value = << "k" >>
    /\ ragWritten = { << >>, << "k" >>, << " ", "\n" >> }
    /\ \E w \in Writers : ragPc[w] = "wait"

\* C28: no step of a build_system_prompt call changes the snippet or the
\* reward store, and the snippet the prompt embeds is one value that was
\* written, whatever the writers are doing meanwhile.
BuildIsPure ==
    [][ (ragPc'[Reader] # ragPc[Reader] /\ ragOp' = "build") =>
            /\ ragContext' = ragContext
            /\ rewardStore' = rewardStore
            /\ \A j \in 1..Len(ragBuilt') :
                   /\ ragBuilt'[j].snippet \in ragWritten'
                   /\ ragBuilt'[j].prompt =
                          Format(ragBuilt'[j].template,
                                 (IF Blank(ragBuilt'[j].snippet) THEN NoContext
                                  ELSE ragBuilt'[j].snippet)
                                 \o << "\n", "\n" >> \o EpisodicMemory) ]_vars

BuildDuringWriteWitness ==
    /\ ragBuilt # << >>
    /\ ragBuilt[1].snippet = << "k" >>
    /\ ragContext = << " ", "{", "k", "}", " " >>
    /\ ragResult[1].op = "build"
    /\ ragResult[1].dirty

\* C29: once a stage's handler has raised and every queued frame has been
\* processed, every stage has received a CancelSignal.
StageErrorCancelsAll ==
    (stageErrors # {} /\ \A i \in StageIds : stageIn[i] = << >>) =>
        \A i \in StageIds : seenCancel[i]

\* C30: an audio frame delivered while the bridge is not ready or has no
\* connection is not sent; no audio frame delivered to the bridge is pushed
\* downstream, whatever the state; and nothing is sent later on: the wire
\* only ever grows by the chunk being delivered, in the step delivering it.
AudioDiscardedUnlessStreaming ==
    [][/\ (nextChunk' # nextChunk /\ ~(ready /\ selfWs # 0)) =>
             wire' = wire /\ sendFailed' = sendFailed
       /\ nextChunk' # nextChunk => down' = down
       /\ wire' # wire =>
             nextChunk' = nextChunk + 1 /\ wire' = Append(wire, nextChunk)]_vars

AudioDiscardedWitness ==
    /\ nextChunk = 2
    /\ wire = << >>
    /\ sendFailed = {}
    /\ selfWs # 0
    /\ ~ready
    /\ hPc["data"] = "idle"

AtMostOneSession ==
    /\ Cardinality({i \in Ids : sess[i] = "open"}) <= 1
    /\ Cardinality({i \in Ids : ws[i] = "open"}) <= 1
    /\ Cardinality({i \in Ids : recv[i] \in {"running", "cancelling"}}) <= 1

\* C33: the audio frames pushed downstream carry the binary messages in the
\* order they were read, and a binary message whose push raised leaves the
\* receive loop running and the frames pushed so far as they are.
DownstreamAudioInReadOrder ==
    [][/\ \A j, k \in 1..Len(down') :
              (j < k /\ down'[j].k = "Audio" /\ down'[k].k = "Audio") =>
                  down'[j].n < down'[k].n
       /\ (\E i \in Ids : RecvBinary(i, FALSE)) =>
              recv' = recv /\ down' = down]_vars

\* The push of the first binary message raised and the second one was
\* read and pushed by the same loop, which is still running.
PushFailureWitness ==
    /\ nextMsg = 3
    /\ \E j \in 1..Len(down) : down[j] = Frame("Audio", 2)
    /\ \A j \in 1..Len(down) : down[j] # Frame("Audio", 1)
    /\ selfRecv # 0 /\ recv[selfRecv] = "running"

\* C34: a frame that is neither a control frame nor an audio frame is pushed
\* once, as it is, in the direction it came in (and not in the other one),
\* whatever the state of the connection, and the handles, the flags, the
\* objects behind them and the wire are left as they were.
OtherFramesForwarded ==
    [][\A d \in {"down", "up"} : ProcessOther(d) =>
           /\ d = "down" => down' = Append(down, Frame("Other", 0)) /\ up' = up
           /\ d = "up" => up' = Append(up, Frame("Other", 0)) /\ down' = down
           /\ UNCHANGED << ready, started, selfSession, selfWs, selfRecv, sess, ws,
                           recv, wire >>]_vars

\* A frame travelling upstream was handed on after a CancelSignal, while a
\* setup task was waiting for its connection.
OtherUpstreamWitness ==
    /\ up = << Frame("Other", 0) >>
    /\ otherLeft = MaxOther - 1
    /\ cancelsDone >= 1
    /\ \E i \in Ids : initPc[i] = "connect"

\* C35: the CancelSignal that task.cancel() of on_participant_left sends has
\* reached the bridge and its handler has returned; once every coroutine of
\* the bridge has run as far as it can, the session is released and the
\* connection closed.
ParticipantLeftTearsDown ==
    (cancelsDone >= 1 /\ endLeft = 1 /\ Quiescent) =>
        (NoSessionOpen /\ NoConnectionOpen)

\* C36: a turn is written only from a non-empty user text and a non-empty
\* agent text, both texts are empty right after the write, no written turn
\* has an empty text, and no two written turns carry the text of the same
\* user-text event.
TurnsLoggedOnce ==
    [][/\ Len(convTurns') > Len(convTurns) =>
             /\ convUser # "" /\ convUser' = "" /\ convAgent' = ""
             /\ convTurns' = Append(convTurns, [user |-> convUser,
                                               agent |-> convTurns'[Len(convTurns')].agent,
                                               ev |-> convUserEv])
       /\ \A j \in 1..Len(convTurns') :
             convTurns'[j].user # "" /\ convTurns'[j].agent # ""
       /\ \A j, k \in 1..Len(convTurns') :
             j < k => convTurns'[j].ev # convTurns'[k].ev]_vars

\* One turn, written on the third event from the user text of the first:
\* the agent message between them wrote nothing (its write failed, or it
\* was empty or not a str) and left the user text in place.
TurnAfterFailedWriteWitness ==
    /\ convEvents = 3
    /\ convTurns = << [user |-> "hi", agent |-> " ", ev |-> 1] >>
    /\ convUser = ""

\* The calls of update_step_reward for task t that have made their increment
\* and not yet returned.
Incrementing(t) ==
    {c \in Callers : brainPc[c] = "incremented" /\ brainCall[c].task_id = t}

\* C37: a step that changes the counters is the increment of one call and
\* adds exactly 1 to the success count of its task when its status is true
\* and to the failure count otherwise, leaving every other counter as it
\* was; and for every task the two counts add up to the calls that have
\* returned plus those between increment and return, which is also the
\* total get_step_stats reports.
EachCallCountsOnce ==
    [][/\ brainStore' # brainStore =>
             \E c \in Callers :
                 /\ brainPc[c] = "idle" /\ brainPc'[c] = "incremented"
                 /\ brainCall'[c].field =
                        (IF brainCall'[c].success_status THEN "success" ELSE "failure")
                 /\ brainStore' =
                        [brainStore EXCEPT ![brainCall'[c].task_id][brainCall'[c].field] = @ + 1]
       /\ \A t \in Tasks :
             brainStore'[t]["success"] + brainStore'[t]["failure"] =
                 brainDone'[t] + Cardinality(Incrementing(t)')
       /\ brainStats' # brainStats =>
             brainStats'[1].total =
                 brainDone[brainStats'[1].task_id]
                     + Cardinality(Incrementing(brainStats'[1].task_id))]_vars

\* Three calls for one task have returned, two of them interleaved.
InterleavedCallsWitness ==
    /\ brainDone["t1"] = 3
    /\ brainStore["t1"] = [success |-> 2, failure |-> 1]
    /\ brainStore["t2"] = [success |-> 0, failure |-> 0]
    /\ \E j \in 1..Len(brainResults) :
          brainResults[j].new_count = 1 /\ brainResults[j].success_count = 2

\* C38: in every result returned, new_count is the returned count of the
\* field that was updated.
NewCountIsReturnedCount ==
    \A j \in 1..Len(brainResults) :
        brainResults[j].new_count =
            (IF brainResults[j].updated_field = "success"
             THEN brainResults[j].success_count
             ELSE brainResults[j].failure_count)

=============================================================================
